---- MODULE Spec2Model ----
(***************************************************************************)
(* Service Renewal Hub: the expiry sweep (check_expiring_services), its    *)
(* two triggers (the daily cron job and POST /check-expiring), the manual  *)
(* reminder (POST /services/{id}/send-reminder), the service and settings  *)
(* CRUD they read, and the day-count computations of the sweep, the        *)
(* dashboard and the report export.                                        *)
(*                                                                         *)
(* The server is one asyncio event loop: a coroutine runs without          *)
(* interruption from one await to the next, so every action below is the   *)
(* code between two awaits of one coroutine.  Times are seconds.           *)
(***************************************************************************)
EXTENDS Integers, Sequences, FiniteSets, TLC

VARIABLES
    db,                 \* the global `db`: FALSE is None, TRUE a connected database
    clock,              \* the wall clock, seconds since the model's epoch (UTC)
    settings,           \* db.settings: the document with id "app_settings"
    services,           \* db.services, in insertion order
    notification_logs,  \* db.notification_logs, in insertion order
    next_run_time,      \* the scheduler's next fire time of the daily job
    sweeps,             \* the check_expiring_services coroutines, by task
    reminder,           \* the send_manual_reminder request being served
    report,             \* the rows of the last report export, None before
    stats               \* the last answer of GET /dashboard/stats, None before

vars ==
    <<db, clock, settings, services, notification_logs, next_run_time, sweeps,
      reminder, report, stats>>

(***************************************************************************)
(* Bounds of the model.                                                    *)
(***************************************************************************)
MaxServices == 1
MaxSweepServices == 2
MaxClock == 1
MaxLogs == 4
MaxCoroutines == 2
MaxReportServices == 2

(***************************************************************************)
(* Program constants.                                                      *)
(***************************************************************************)
SecondsPerDay == 86400

\* The clock advances in steps of half a day, so that both whole and
\* fractional day differences occur.
Tick == SecondsPerDay \div 2

\* Task 0 is the scheduler's job instance, task 1 a task made by
\* asyncio.create_task in trigger_expiry_check.
CronTask == 0
TriggerTask == 1
Tasks == {CronTask, TriggerTask}

(***************************************************************************)
(* Values.                                                                 *)
(***************************************************************************)
\* Optional[T]: <<>> is None, <<v>> is the value v.
NoneVal == <<>>
Some(v) == <<v>>
IsNone(o) == o = <<>>

Range(seq) == {seq[n] : n \in 1..Len(seq)}

\* An ISO timestamp string, by its form: "" (empty), text that is no ISO
\* timestamp (bad), a timestamp without offset (naive), one ending in "Z"
\* (z), one ending in "+00:00" (offset).  t is the time it denotes.
IsoString(form, t) == [form |-> form, t |-> t]
EmptyString == IsoString("empty", 0)
BadString == IsoString("bad", 0)

\* A datetime object: aware (tzinfo set) or naive, and the time it denotes.
DateTime(aware, t) == [aware |-> aware, t |-> t]

\* str.replace('Z', '+00:00') on a timestamp string.
ReplaceZ(str) == IF str.form = "z" THEN IsoString("offset", str.t) ELSE str

\* datetime.fromisoformat: ValueError for text that is no ISO timestamp
\* (the "Z" suffix included: the callers replace it first), else the
\* datetime, aware exactly when the text carries an offset.
FromIsoFormat(str) ==
    IF str.form \in {"empty", "bad", "z"}
    THEN [err |-> "ValueError", dt |-> DateTime(FALSE, 0)]
    ELSE [err |-> "", dt |-> DateTime(str.form = "offset", str.t)]

\* datetime.__sub__: TypeError when exactly one operand is aware, else the
\* timedelta in seconds.
Subtract(a, b) ==
    IF a.aware # b.aware
    THEN [err |-> "TypeError", delta |-> 0]
    ELSE [err |-> "", delta |-> a.t - b.t]

\* The day count truncated towards zero, as int(seconds / 86400) would be.
TimedeltaDaysTruncating(delta) ==
    IF delta >= 0 THEN delta \div SecondsPerDay ELSE -((-delta) \div SecondsPerDay)

\* timedelta.days: the timedelta is normalised with 0 <= seconds < 86400,
\* so days is the floor of the difference in days.
TimedeltaDays(delta) == delta \div SecondsPerDay

\* datetime.now(timezone.utc)
NowUtc == DateTime(TRUE, clock)

\* bool(str) of a timestamp string
Truthy(str) == str.form # "empty"

\* owner.get("email") is truthy
HasEmail(owner) == owner.email # ""

EmailOwners(owners) == {n \in 1..Len(owners) : HasEmail(owners[n])}

\* AppSettings.notification_thresholds default, and the default of
\* settings.get("notification_thresholds", [30, 7, 1]).
DefaultNotificationThresholds == <<30, 7, 1>>

\* db.settings holds no document
NoSettings == [exists |-> FALSE, notification_thresholds |-> NoneVal]

\* AppSettings().model_dump(), the fields the sweep reads
DefaultSettings ==
    [exists |-> TRUE, notification_thresholds |-> Some(DefaultNotificationThresholds)]

\* A reminder threshold; id 0 stands for a dict without an "id" key.
Threshold(id, days) == [id |-> id, days_before |-> days]
NoId == 0

\* str(uuid.uuid4()) for the n-th threshold of a list: distinct from every
\* id a client supplies and from the other generated ids of the list.
GeneratedId(n) == 100 + n

\* The default reminder_thresholds of create_service.
DefaultReminderThresholds ==
    <<Threshold(GeneratedId(1), 30), Threshold(GeneratedId(2), 7),
      Threshold(GeneratedId(3), 1)>>

\* for threshold in thresholds: if "id" not in threshold: threshold["id"] = uuid4()
WithIds(thresholds) ==
    [n \in 1..Len(thresholds) |->
        IF thresholds[n].id = NoId
        THEN Threshold(GeneratedId(n), thresholds[n].days_before)
        ELSE thresholds[n]]

\* The daily runs of the schedule that are followed, and the seconds that
\* may pass between the job firing and the sweep taking `now`.
MaxRuns == 3
MaxDelay == 2

(***************************************************************************)
(* Inputs.                                                                 *)
(***************************************************************************)
\* An expiry 7.5 days after the epoch: 7 whole days away at clock 0 and at
\* clock Tick, 6 whole days away at clock 2 * Tick.
ExpiryTime == 7 * SecondsPerDay + Tick

ExpiryInputs ==
    {EmptyString, BadString, IsoString("naive", ExpiryTime),
     IsoString("z", ExpiryTime)}

Owner(name, email) == [name |-> name, email |-> email]
OwnerInputs ==
    {<<>>, <<Owner("ann", "ann@x"), Owner("nomail", ""), Owner("bob", "bob@x")>>}

ThresholdInputs ==
    {<<>>, <<Threshold(NoId, 7)>>}

NotificationThresholdInputs == {<<7>>}

\* ServiceCreate bodies that pass Service(**data): expiry_date a string,
\* owners a list.
ServiceCreateInputs ==
    [expiry_date : ExpiryInputs,
     reminder_thresholds : {NoneVal},
     owners : OwnerInputs]

\* ServiceUpdate bodies: every field optional; these set one field each.
NoUpdate == [expiry_date |-> NoneVal, reminder_thresholds |-> NoneVal, owners |-> NoneVal]
ServiceUpdateInputs ==
    {[NoUpdate EXCEPT !.reminder_thresholds = Some(th)] : th \in ThresholdInputs}
    \cup {[NoUpdate EXCEPT !.owners = Some(o)] : o \in OwnerInputs}

\* The service ids of the requests, and the ids that exist when at most
\* `limit` services are kept.
ServiceIds == 1..MaxServices
IdPool(limit) == 1..limit

\* Service documents a collection may hold when the process starts: the
\* schema's notifications_sent is any list of threshold ids.
NotifiedInputs ==
    {<<>>, <<GeneratedId(2)>>, <<GeneratedId(1), GeneratedId(2)>>}

StoredServiceInputs ==
    [id : {1},
     expiry_date : ExpiryInputs,
     reminder_thresholds : {DefaultReminderThresholds},
     owners : OwnerInputs,
     notifications_sent : NotifiedInputs]

\* Service documents as create_service and update_service leave them: the
\* thresholds of creation, a list put by an update, or an empty list.
DueServiceInputs ==
    [id : {1},
     expiry_date : {IsoString("z", ExpiryTime)},
     reminder_thresholds :
        {DefaultReminderThresholds} \cup {WithIds(th) : th \in ThresholdInputs},
     owners : OwnerInputs,
     notifications_sent : {<<>>}]

\* The settings document: none, the default, or one put by update_settings.
SettingsInputs ==
    {NoSettings, DefaultSettings}
    \cup {[exists |-> TRUE, notification_thresholds |-> Some(th)] :
            th \in NotificationThresholdInputs}

\* Collections of one or two services for a sweep to go through: each has
\* one owner with an email, after an owner without one or alone.
RunServicesInputs ==
    UNION {{[n \in 1..len |->
               [id |-> n,
                expiry_date |-> fields[n].expiry_date,
                reminder_thresholds |-> DefaultReminderThresholds,
                owners |-> fields[n].owners,
                notifications_sent |-> <<>>]] :
              fields \in [1..len ->
                 [expiry_date : {EmptyString, IsoString("naive", ExpiryTime),
                                 IsoString("z", ExpiryTime)},
                  owners : {<<Owner("ann", "ann@x")>>,
                            <<Owner("nomail", ""), Owner("bob", "bob@x")>>}]]} :
           len \in 1..MaxSweepServices}

\* Expiry times half a day apart around the day counts at which the
\* status changes: 0, 7 and 30 days from the epoch.
StatusExpiryTimes ==
    {h * Tick : h \in (-3..1) \cup (13..17) \cup (59..63)}

StatusExpiryInputs ==
    {EmptyString, BadString}
    \cup {IsoString(form, t) : form \in {"naive", "z"}, t \in StatusExpiryTimes}

\* The stored status of a document: none, or the default of Service.status.
StatusInputs == {NoneVal, Some("active")}

\* The n-th document of a collection read by the report and the dashboard.
ReportService(n, fields) ==
    [id |-> n,
     expiry_date |-> fields.expiry_date,
     reminder_thresholds |-> DefaultReminderThresholds,
     owners |-> <<>>,
     notifications_sent |-> <<>>,
     status |-> fields.status]

ReportServicesInputs ==
    UNION {{[n \in 1..len |-> ReportService(n, fields[n])] :
              fields \in [1..len -> [expiry_date : StatusExpiryInputs,
                                     status : StatusInputs]]} :
           len \in 1..MaxReportServices}

\* Threshold lists of a request body (List[dict]): each dict carries the id
\* the client gave it, or none.
MaxThresholds == 2
ClientThresholdInputs ==
    UNION {[1..len -> {Threshold(id, days) : id \in {NoId, 5}, days \in {7, 1}}] :
           len \in 0..MaxThresholds}

ThresholdCreateInputs ==
    [expiry_date : {IsoString("z", ExpiryTime)},
     reminder_thresholds : {NoneVal} \cup {Some(th) : th \in ClientThresholdInputs},
     owners : {<<>>}]

ThresholdUpdateInputs ==
    {[NoUpdate EXCEPT !.reminder_thresholds = Some(th)] : th \in ClientThresholdInputs}

(***************************************************************************)
(* db.services                                                             *)
(***************************************************************************)
StoredIds == {services[n].id : n \in 1..Len(services)}

\* db.services.find_one({"id": service_id})
FindService(service_id) ==
    IF service_id \in StoredIds
    THEN Some(services[CHOOSE n \in 1..Len(services) : services[n].id = service_id])
    ELSE NoneVal

\* Ids that a document or a coroutine still refers to.
ReferencedIds ==
    StoredIds
    \cup {notification_logs[n].service_id : n \in 1..Len(notification_logs)}
    \cup UNION {{sweeps[t].services[n].id : n \in 1..Len(sweeps[t].services)} : t \in Tasks}
    \cup {reminder.service_id}

\* str(uuid.uuid4()) of Service.id: an id nothing refers to.
NewServiceId(limit) ==
    CHOOSE id \in IdPool(limit) :
        /\ id \notin ReferencedIds
        /\ \A other \in IdPool(limit) : other \notin ReferencedIds => id <= other

(***************************************************************************)
(* Coroutines.                                                             *)
(***************************************************************************)
\* A check_expiring_services coroutine.  pc is the await it stands at:
\* "settings" (db.settings.find_one), "services" (db.services.find),
\* "send" (send_email), "log" (db.notification_logs.insert_one), "done"
\* (the coroutine has returned or raised); "idle" when the task does not
\* exist.  (i, j, k) is the position in the loops over services,
\* thresholds and owners; sent holds the results of the send_email calls
\* of the owner loop it is in.  Of a coroutine that is done, error is the
\* exception it raised and unvisited the number of fetched services its
\* loop never reached.
IdleSweep ==
    [pc |-> "idle", thresholds |-> <<>>, now |-> 0, services |-> <<>>,
     i |-> 0, j |-> 0, k |-> 0, sent |-> <<>>, unvisited |-> 0, error |-> ""]

\* A send_manual_reminder request.  pc: "send", "log", "responded" (result
\* is the response), or "idle" when none is being served.
IdleReminder ==
    [pc |-> "idle", service_id |-> 0, owners |-> <<>>, k |-> 0, sent |-> <<>>,
     sent_count |-> 0, result |-> ""]

\* The fields of a service document that check_expiring_services reads.
SweepView(service) ==
    [id |-> service.id, expiry_date |-> service.expiry_date, owners |-> service.owners]

Running(t) == sweeps[t].pc \notin {"idle", "done"}

\* The coroutines alive: sweep tasks and the reminder request.
Coroutines ==
    Cardinality({t \in Tasks : sweeps[t].pc # "idle"})
    + (IF reminder.pc # "idle" THEN 1 ELSE 0)

\* The process starts at 21:00 UTC: CronTrigger(hour=9, minute=0) fires
\* first half a day later.
FirstRunTime == Tick

\* Expiries two days after the first run of the daily job: one second
\* after the job's time of day, and half a day after it.
DailyExpiryTimes ==
    {FirstRunTime + 2 * SecondsPerDay + 1, FirstRunTime + 2 * SecondsPerDay + Tick}

DailyServiceInputs ==
    [id : {1},
     expiry_date : {IsoString("z", t) : t \in DailyExpiryTimes},
     reminder_thresholds : {DefaultReminderThresholds},
     owners : {<<Owner("ann", "ann@x")>>},
     notifications_sent : {<<>>}]

\* The default settings, or day offsets 1 and 0 put by update_settings.
DailySettingsInputs ==
    {DefaultSettings, [exists |-> TRUE, notification_thresholds |-> Some(<<1, 0>>)]}

Init ==
    /\ db \in BOOLEAN
    /\ clock = 0
    /\ settings = NoSettings
    /\ services = <<>>
    /\ notification_logs = <<>>
    /\ next_run_time = FirstRunTime
    /\ sweeps = [t \in Tasks |-> IdleSweep]
    /\ reminder = IdleReminder
    /\ report = NoneVal
    /\ stats = NoneVal

(***************************************************************************)
(* Time, setup and settings.                                               *)
(***************************************************************************)
Advance ==
    /\ clock < MaxClock * Tick
    /\ clock' = clock + Tick
    /\ UNCHANGED <<db, settings, services, notification_logs, sweeps, reminder,
                   next_run_time, report, stats>>

\* Time passes up to the next fire time of the daily job, the job's
\* previous instance having ended.
AdvanceToNextRun ==
    /\ clock < next_run_time
    /\ next_run_time <= FirstRunTime + (MaxRuns - 1) * SecondsPerDay
    /\ sweeps[CronTask].pc = "idle"
    /\ clock' = next_run_time
    /\ UNCHANGED <<db, settings, services, notification_logs, sweeps, reminder,
                   next_run_time, report, stats>>

\* A second passes after the job has fired, while its coroutine waits for
\* db.settings.find_one before it takes `now` (lines 1210-1213).
Delay ==
    /\ next_run_time - SecondsPerDay <= clock
    /\ clock < next_run_time - SecondsPerDay + MaxDelay
    /\ clock' = clock + 1
    /\ UNCHANGED <<db, settings, services, notification_logs, sweeps, reminder,
                   next_run_time, report, stats>>

\* POST /setup: connect_db, then upsert the default settings with $setOnInsert.
RunSetup ==
    /\ ~db
    /\ db' = TRUE
    /\ settings' = IF settings.exists THEN settings ELSE DefaultSettings
    /\ UNCHANGED <<clock, services, notification_logs, sweeps, reminder,
                   next_run_time, report, stats>>

\* GET /settings: inserts the default document when there is none.
GetSettings ==
    /\ db
    /\ ~settings.exists
    /\ settings' = DefaultSettings
    /\ UNCHANGED <<db, clock, services, notification_logs, sweeps, reminder,
                   next_run_time, report, stats>>

\* PUT /settings/update with notification_thresholds in the body: $set with
\* upsert.
UpdateSettings(thresholds) ==
    /\ db
    /\ settings' = [exists |-> TRUE, notification_thresholds |-> Some(thresholds)]
    /\ UNCHANGED <<db, clock, services, notification_logs, sweeps, reminder,
                   next_run_time, report, stats>>

(***************************************************************************)
(* Services CRUD.                                                          *)
(***************************************************************************)
\* create_service: the stored document for a request body.
NewService(id, data) ==
    [id |-> id,
     expiry_date |-> data.expiry_date,
     reminder_thresholds |->
        IF IsNone(data.reminder_thresholds) \/ data.reminder_thresholds[1] = <<>>
        THEN DefaultReminderThresholds
        ELSE WithIds(data.reminder_thresholds[1]),
     owners |-> data.owners,
     notifications_sent |-> <<>>]

\* POST /services while fewer than `limit` services are stored.
CreateService(limit, data) ==
    /\ db
    /\ Len(services) < limit
    /\ \E id \in IdPool(limit) : id \notin ReferencedIds
    /\ services' = Append(services, NewService(NewServiceId(limit), data))
    /\ UNCHANGED <<db, clock, settings, notification_logs, sweeps, reminder,
                   next_run_time, report, stats>>

\* update_service without lines 813-814: the notified thresholds survive a
\* new threshold list.
UpdatedServiceKeepingNotified(existing, data) ==
    [id |-> existing.id,
     expiry_date |->
        IF IsNone(data.expiry_date) THEN existing.expiry_date ELSE data.expiry_date[1],
     reminder_thresholds |->
        IF IsNone(data.reminder_thresholds) THEN existing.reminder_thresholds
        ELSE WithIds(data.reminder_thresholds[1]),
     owners |-> IF IsNone(data.owners) THEN existing.owners ELSE data.owners[1],
     notifications_sent |-> existing.notifications_sent]

\* update_service: the document after $set of the fields that are not None.
UpdatedService(existing, data) ==
    [id |-> existing.id,
     expiry_date |->
        IF IsNone(data.expiry_date) THEN existing.expiry_date ELSE data.expiry_date[1],
     reminder_thresholds |->
        IF IsNone(data.reminder_thresholds) THEN existing.reminder_thresholds
        ELSE WithIds(data.reminder_thresholds[1]),
     owners |-> IF IsNone(data.owners) THEN existing.owners ELSE data.owners[1],
     notifications_sent |->
        IF IsNone(data.reminder_thresholds) THEN existing.notifications_sent
        ELSE <<>>]

UpdateService(service_id, data) ==
    /\ db
    /\ service_id \in StoredIds
    /\ services' = [n \in 1..Len(services) |->
                      IF services[n].id = service_id
                      THEN UpdatedService(services[n], data)
                      ELSE services[n]]
    /\ UNCHANGED <<db, clock, settings, notification_logs, sweeps, reminder,
                   next_run_time, report, stats>>

RECURSIVE Without(_, _)
Without(seq, service_id) ==
    IF seq = <<>> THEN <<>>
    ELSE IF Head(seq).id = service_id THEN Without(Tail(seq), service_id)
    ELSE <<Head(seq)>> \o Without(Tail(seq), service_id)

\* delete_service that also removes the service's entries from the log.
DeleteServiceWithLogs(service_id) ==
    /\ db
    /\ service_id \in StoredIds
    /\ services' = Without(services, service_id)
    /\ notification_logs' =
         SelectSeq(notification_logs, LAMBDA entry : entry.service_id # service_id)
    /\ UNCHANGED <<db, clock, settings, sweeps, reminder, next_run_time,
                   report, stats>>

\* delete_service: delete_one on db.services, nothing else.
DeleteService(service_id) ==
    /\ db
    /\ service_id \in StoredIds
    /\ services' = Without(services, service_id)
    /\ UNCHANGED <<db, clock, settings, notification_logs, sweeps, reminder,
                   next_run_time, report, stats>>

(***************************************************************************)
(* check_expiring_services                                                 *)
(***************************************************************************)
\* days_until with a service that has no expiry taken as expiring a week
\* after the sweep's `now`.
DaysUntilDefaultingToAWeek(service, now) ==
    IF ~Truthy(service.expiry_date)
    THEN [skip |-> FALSE, error |-> "", days |-> 7]
    ELSE LET parsed == FromIsoFormat(ReplaceZ(service.expiry_date)) IN
         IF parsed.err # ""
         THEN [skip |-> TRUE, error |-> "", days |-> 0]
         ELSE LET diff == Subtract(parsed.dt, DateTime(TRUE, now)) IN
              IF diff.err # ""
              THEN [skip |-> FALSE, error |-> diff.err, days |-> 0]
              ELSE [skip |-> FALSE, error |-> "", days |-> TimedeltaDays(diff.delta)]

\* days_until of a fetched service at the sweep's `now`: the parse of
\* lines 1219-1222 and the subtraction of line 1224.  skip: the loop
\* continues with the next service (no expiry, or ValueError); error: the
\* exception that leaves the loop.
DaysUntil(service, now) ==
    IF ~Truthy(service.expiry_date)
    THEN [skip |-> TRUE, error |-> "", days |-> 0]
    ELSE LET parsed == FromIsoFormat(ReplaceZ(service.expiry_date)) IN
         IF parsed.err # ""
         THEN [skip |-> TRUE, error |-> "", days |-> 0]
         ELSE LET diff == Subtract(parsed.dt, DateTime(TRUE, now)) IN
              IF diff.err # ""
              THEN [skip |-> FALSE, error |-> diff.err, days |-> 0]
              ELSE [skip |-> FALSE, error |-> "", days |-> TimedeltaDays(diff.delta)]

\* The loops with `days_until <= days` in place of `days_until == days`: a
\* day offset that has been passed is still notified.
RECURSIVE NextSendCatchingUp(_, _, _, _, _, _)
NextSendCatchingUp(svcs, thresholds, now, i, j, k) ==
    IF i > Len(svcs)
    THEN [kind |-> "done", i |-> i, j |-> 1, k |-> 1]
    ELSE LET d == DaysUntil(svcs[i], now) IN
         IF d.skip
         THEN NextSendCatchingUp(svcs, thresholds, now, i + 1, 1, 1)
         ELSE IF d.error # ""
         THEN [kind |-> "error", i |-> i, j |-> j, k |-> k]
         ELSE IF j > Len(thresholds)
         THEN NextSendCatchingUp(svcs, thresholds, now, i + 1, 1, 1)
         ELSE IF d.days > thresholds[j]
         THEN NextSendCatchingUp(svcs, thresholds, now, i, j + 1, 1)
         ELSE IF k > Len(svcs[i].owners)
         THEN NextSendCatchingUp(svcs, thresholds, now, i, j + 1, 1)
         ELSE IF HasEmail(svcs[i].owners[k])
         THEN [kind |-> "send", i |-> i, j |-> j, k |-> k]
         ELSE NextSendCatchingUp(svcs, thresholds, now, i, j, k + 1)

\* The loops of lines 1216-1232 from position (i, j, k) = (service,
\* threshold, owner) up to the next send_email call, the end of the list
\* or an exception.
RECURSIVE NextSend(_, _, _, _, _, _)
NextSend(svcs, thresholds, now, i, j, k) ==
    IF i > Len(svcs)
    THEN [kind |-> "done", i |-> i, j |-> 1, k |-> 1]
    ELSE LET d == DaysUntil(svcs[i], now) IN
         IF d.skip
         THEN NextSend(svcs, thresholds, now, i + 1, 1, 1)
         ELSE IF d.error # ""
         THEN [kind |-> "error", i |-> i, j |-> j, k |-> k]
         ELSE IF j > Len(thresholds)
         THEN NextSend(svcs, thresholds, now, i + 1, 1, 1)
         ELSE IF d.days # thresholds[j]
         THEN NextSend(svcs, thresholds, now, i, j + 1, 1)
         ELSE IF k > Len(svcs[i].owners)
         THEN NextSend(svcs, thresholds, now, i, j + 1, 1)
         ELSE IF HasEmail(svcs[i].owners[k])
         THEN [kind |-> "send", i |-> i, j |-> j, k |-> k]
         ELSE NextSend(svcs, thresholds, now, i, j, k + 1)

\* The coroutine after running from (i, j, k) to its next await or its end.
Resume(task, i, j, k) ==
    LET next == NextSend(task.services, task.thresholds, task.now, i, j, k) IN
    IF next.kind = "send"
    THEN [task EXCEPT !.pc = "send", !.i = next.i, !.j = next.j, !.k = next.k,
                      !.sent = IF next.i = task.i /\ next.j = task.j
                               THEN task.sent ELSE <<>>]
    ELSE [IdleSweep EXCEPT !.pc = "done",
                           !.unvisited = IF next.kind = "error"
                                         THEN Len(task.services) - next.i
                                         ELSE 0,
                           !.error = IF next.kind = "error" THEN "TypeError" ELSE ""]

\* The scheduler fires the daily job (startup_event, CronTrigger(hour=9,
\* minute=0)) once its fire time has come, and sets the next fire time a
\* day later.  With the default max_instances=1 it skips the run while the
\* job's previous instance is still running.
ScheduledSweep ==
    /\ clock >= next_run_time
    /\ Coroutines < MaxCoroutines
    /\ next_run_time' = next_run_time + SecondsPerDay
    /\ sweeps' = IF sweeps[CronTask].pc = "idle"
                 THEN [sweeps EXCEPT ![CronTask] = [IdleSweep EXCEPT !.pc = "settings"]]
                 ELSE sweeps
    /\ UNCHANGED <<db, clock, settings, services, notification_logs, reminder,
                   report, stats>>

\* trigger_expiry_check with `await check_expiring_services()`: the handler
\* runs into the sweep before it answers.
TriggerExpiryCheckAwaiting ==
    /\ sweeps[TriggerTask].pc = "idle"
    /\ Coroutines < MaxCoroutines
    /\ sweeps' = [sweeps EXCEPT ![TriggerTask] =
                    [IdleSweep EXCEPT !.pc = "services", !.now = clock]]
    /\ UNCHANGED <<db, clock, settings, services, notification_logs, reminder,
                   next_run_time, report, stats>>

\* trigger_expiry_check: asyncio.create_task(check_expiring_services()),
\* whatever else is running.
TriggerExpiryCheck ==
    /\ sweeps[TriggerTask].pc = "idle"
    /\ Coroutines < MaxCoroutines
    /\ sweeps' = [sweeps EXCEPT ![TriggerTask] = [IdleSweep EXCEPT !.pc = "settings"]]
    /\ UNCHANGED <<db, clock, settings, services, notification_logs, reminder,
                   next_run_time, report, stats>>

\* The sweep without `if db is None: return`.
SweepReadSettingsWithoutDbCheck(t) ==
    /\ sweeps[t].pc = "settings"
    /\ sweeps' = [sweeps EXCEPT ![t] =
         [sweeps[t] EXCEPT
             !.pc = "services",
             !.thresholds = IF IsNone(settings.notification_thresholds)
                            THEN DefaultNotificationThresholds
                            ELSE settings.notification_thresholds[1],
             !.now = clock]]
    /\ UNCHANGED <<db, clock, settings, services, notification_logs, reminder,
                   next_run_time, report, stats>>

\* Lines 1208-1213: return when db is None, else read the settings and
\* take `now`.
SweepReadSettings(t) ==
    /\ sweeps[t].pc = "settings"
    /\ sweeps' = [sweeps EXCEPT ![t] =
         IF ~db THEN [IdleSweep EXCEPT !.pc = "done"]
         ELSE [sweeps[t] EXCEPT
                 !.pc = "services",
                 !.thresholds = IF IsNone(settings.notification_thresholds)
                                THEN DefaultNotificationThresholds
                                ELSE settings.notification_thresholds[1],
                 !.now = clock]]
    /\ UNCHANGED <<db, clock, settings, services, notification_logs, reminder,
                   next_run_time, report, stats>>

\* Line 1214 and the loops up to the first send_email.
SweepFetchServices(t) ==
    /\ sweeps[t].pc = "services"
    /\ LET task == [sweeps[t] EXCEPT
                      !.services = [n \in 1..Len(services) |-> SweepView(services[n])]]
       IN /\ sweeps' = [sweeps EXCEPT ![t] = Resume(task, 1, 1, 1)]
    /\ UNCHANGED <<db, clock, settings, services, notification_logs, reminder,
                   next_run_time, report, stats>>

\* send_email (lines 995-1084): (False, reason) when db.settings holds no
\* document, else what the provider answers; exceptions of the transport
\* are caught and returned as (False, reason).
SendEmailResults == IF settings.exists THEN BOOLEAN ELSE {FALSE}

\* Lines 1233-1237: the sweep awaits send_email and drops its result.
SweepSend(t) ==
    /\ sweeps[t].pc = "send"
    /\ \E ok \in SendEmailResults :
         sweeps' = [sweeps EXCEPT ![t].pc = "log", ![t].sent = Append(@, ok)]
    /\ UNCHANGED <<db, clock, settings, services, notification_logs, reminder,
                   next_run_time, report, stats>>

\* A send_email call that never returns: the coroutine stays suspended at
\* the await of line 1233.
SweepSendHangs(t) ==
    /\ sweeps[t].pc = "send"
    /\ sweeps' = [sweeps EXCEPT ![t].pc = "hung"]
    /\ UNCHANGED <<db, clock, settings, services, notification_logs, reminder,
                   next_run_time, report, stats>>

\* The document of lines 1239-1248; status "" stands for no "status" key.
AutoReminderLog(service, owner, days) ==
    [service_id |-> service.id, recipient_email |-> owner.email,
     days_until_expiry |-> days, type |-> "auto_reminder", status |-> ""]

\* The sweep recording the day offset it has notified in the service's
\* notifications_sent.
SweepLogRecording(t) ==
    /\ sweeps[t].pc = "log"
    /\ Len(notification_logs) < MaxLogs
    /\ LET task == sweeps[t]
           service == task.services[task.i]
       IN /\ notification_logs' = Append(notification_logs,
                AutoReminderLog(service, service.owners[task.k], task.thresholds[task.j]))
          /\ services' = [n \in 1..Len(services) |->
                IF services[n].id = service.id
                THEN [services[n] EXCEPT
                        !.notifications_sent = Append(@, task.thresholds[task.j])]
                ELSE services[n]]
          /\ sweeps' = [sweeps EXCEPT ![t] = Resume(task, task.i, task.j, task.k + 1)]
    /\ UNCHANGED <<db, clock, settings, reminder, next_run_time, report, stats>>

\* The sweep reading the settings' day offsets again after each log entry.
SweepLogRereading(t) ==
    /\ sweeps[t].pc = "log"
    /\ Len(notification_logs) < MaxLogs
    /\ LET task == sweeps[t]
           service == task.services[task.i]
           reread == [task EXCEPT !.thresholds =
                        IF IsNone(settings.notification_thresholds)
                        THEN DefaultNotificationThresholds
                        ELSE settings.notification_thresholds[1]]
       IN /\ notification_logs' = Append(notification_logs,
                AutoReminderLog(service, service.owners[task.k], task.thresholds[task.j]))
          /\ sweeps' = [sweeps EXCEPT ![t] = Resume(reread, task.i, task.j, task.k + 1)]
    /\ UNCHANGED <<db, clock, settings, services, reminder, next_run_time,
                   report, stats>>

\* Lines 1239-1248 and the loops up to the next send_email.
SweepLog(t) ==
    /\ sweeps[t].pc = "log"
    /\ Len(notification_logs) < MaxLogs
    /\ LET task == sweeps[t]
           service == task.services[task.i]
       IN /\ notification_logs' = Append(notification_logs,
                AutoReminderLog(service, service.owners[task.k], task.thresholds[task.j]))
          /\ sweeps' = [sweeps EXCEPT ![t] = Resume(task, task.i, task.j, task.k + 1)]
    /\ UNCHANGED <<db, clock, settings, services, reminder, next_run_time,
                   report, stats>>

\* A sweep that starts itself again when it has ended.
SweepFinishRescheduling(t) ==
    /\ sweeps[t].pc = "done"
    /\ sweeps' = [sweeps EXCEPT ![t] = [IdleSweep EXCEPT !.pc = "settings"]]
    /\ UNCHANGED <<db, clock, settings, services, notification_logs, reminder,
                   next_run_time, report, stats>>

\* The event loop drops the finished task; the scheduler's job instance
\* is over.
SweepFinish(t) ==
    /\ sweeps[t].pc = "done"
    /\ sweeps' = [sweeps EXCEPT ![t] = IdleSweep]
    /\ UNCHANGED <<db, clock, settings, services, notification_logs, reminder,
                   next_run_time, report, stats>>

(***************************************************************************)
(* send_manual_reminder                                                    *)
(***************************************************************************)
\* The owner loop with `break` in place of skipping an owner that has no
\* email.
NextOwnerStoppingAtBlank(owners, k) ==
    IF k > Len(owners) THEN k
    ELSE IF HasEmail(owners[k]) THEN k
    ELSE Len(owners) + 1

\* The owner loop without `if email:`: the owner at k is sent to, email or
\* not.
NextOwnerIncludingBlank(owners, k) == k

\* The index of the first owner at or after k that has an email, or
\* Len(owners) + 1 (lines 1174-1176, 1200-1201).
RECURSIVE NextOwner(_, _)
NextOwner(owners, k) ==
    IF k > Len(owners) THEN k
    ELSE IF HasEmail(owners[k]) THEN k
    ELSE NextOwner(owners, k + 1)

\* The owner loop leaving at the first send that failed.
ReminderResumeStoppingOnFailure(req, k) ==
    LET next == NextOwner(req.owners, k) IN
    IF next <= Len(req.owners) /\ (req.sent = <<>> \/ req.sent[Len(req.sent)])
    THEN [req EXCEPT !.pc = "send", !.k = next]
    ELSE [req EXCEPT !.pc = "responded", !.k = next,
                     !.result = "Reminders sent to sent_count recipients"]

\* The request after running from owner k to its next await or to its
\* response (line 1204).
ReminderResume(req, k) ==
    LET next == NextOwner(req.owners, k) IN
    IF next <= Len(req.owners)
    THEN [req EXCEPT !.pc = "send", !.k = next]
    ELSE [req EXCEPT !.pc = "responded", !.k = next,
                     !.result = "Reminders sent to sent_count recipients"]

\* A service without owners answered like a service that is not found.
NoOwnersNotFound(req) ==
    [req EXCEPT !.pc = "responded", !.result = "404 Service not found"]

\* The response when the service has no owners (lines 1169-1171).
NoOwnersResponse(req) ==
    [req EXCEPT !.pc = "responded", !.result = "No owners to notify"]

\* Lines 1160-1177: look the service up, answer 404 or "No owners to
\* notify", or run to the first send_email.
SendManualReminder(service_id) ==
    /\ db
    /\ reminder.pc = "idle"
    /\ Coroutines < MaxCoroutines
    /\ LET found == FindService(service_id)
           req == [IdleReminder EXCEPT !.service_id = service_id]
       IN reminder' =
            IF IsNone(found)
            THEN [req EXCEPT !.pc = "responded", !.result = "404 Service not found"]
            ELSE IF found[1].owners = <<>> THEN NoOwnersResponse(req)
            ELSE ReminderResume([req EXCEPT !.owners = found[1].owners], 1)
    /\ UNCHANGED <<db, clock, settings, services, notification_logs, sweeps,
                   next_run_time, report, stats>>

\* Lines 1178-1187: await send_email and count the successes.
ReminderSend ==
    /\ reminder.pc = "send"
    /\ \E ok \in SendEmailResults :
         reminder' = [reminder EXCEPT
            !.pc = "log",
            !.sent = Append(@, ok),
            !.sent_count = IF ok THEN @ + 1 ELSE @]
    /\ UNCHANGED <<db, clock, settings, services, notification_logs, sweeps,
                   next_run_time, report, stats>>

\* The document of lines 1190-1199.
ManualReminderLog(service_id, owner, success) ==
    [service_id |-> service_id, recipient_email |-> owner.email,
     days_until_expiry |-> 0, type |-> "manual_reminder",
     status |-> IF success THEN "sent" ELSE "failed"]

\* Lines 1189-1204: insert the log entry and go on to the next owner.
ReminderLog ==
    /\ reminder.pc = "log"
    /\ Len(notification_logs) < MaxLogs
    /\ notification_logs' = Append(notification_logs,
         ManualReminderLog(reminder.service_id, reminder.owners[reminder.k],
                           reminder.sent[Len(reminder.sent)]))
    /\ reminder' = ReminderResume(reminder, reminder.k + 1)
    /\ UNCHANGED <<db, clock, settings, services, sweeps, next_run_time,
                   report, stats>>

\* The response has been delivered.
ReminderClose ==
    /\ reminder.pc = "responded"
    /\ reminder' = IdleReminder
    /\ UNCHANGED <<db, clock, settings, services, notification_logs, sweeps,
                   next_run_time, report, stats>>

(***************************************************************************)
(* The other day counts: get_dashboard_stats and get_services_df.          *)
(***************************************************************************)
\* The operands of the subtraction of line 1224 of server.py.
SweepOperands(expiry_date, now) ==
    [expiry |-> FromIsoFormat(ReplaceZ(expiry_date)).dt, now |-> DateTime(TRUE, now)]

\* The operands of line 1130 of server.py for a stored expiry string that
\* parses: the expiry and datetime.now(timezone.utc).
DashboardOperands(expiry_date) ==
    [expiry |-> FromIsoFormat(ReplaceZ(expiry_date)).dt, now |-> NowUtc]

\* The operands of line 40 of reports.py: `now` is taken in the expiry's
\* zone when it has one, and naive otherwise (lines 35-38).
ReportOperands(expiry_date) ==
    LET expiry == FromIsoFormat(ReplaceZ(expiry_date)).dt IN
    [expiry |-> expiry, now |-> DateTime(expiry.aware, clock)]

Parses(expiry_date) == FromIsoFormat(ReplaceZ(expiry_date)).err = ""

MixedOperands(operands) == operands.expiry.aware # operands.now.aware

(***************************************************************************)
(* The report export: get_services_df and GET /reports/export.             *)
(***************************************************************************)
\* The day count truncated towards minus infinity in place of math.ceil.
FloorDays(delta) == delta \div SecondsPerDay

\* math.ceil(delta.total_seconds() / 86400)
CeilDays(delta) == -((-delta) \div SecondsPerDay)

\* s.get("status", "Active"); a document's status is None when it has no
\* "status" key.
StoredStatus(s) == IF IsNone(s.status) THEN "Active" ELSE s.status[1]

\* The status with `<` in place of `<=` at the 7 and 30 day limits.
CalculatedStatusExclusive(days_val) ==
    IF days_val < 0 THEN "Expired"
    ELSE IF days_val < 7 THEN "Critical"
    ELSE IF days_val < 30 THEN "Warning"
    ELSE "Safe"

\* Lines 48-55 of reports.py.
CalculatedStatus(days_val) ==
    IF days_val < 0 THEN "Expired"
    ELSE IF days_val <= 7 THEN "Critical"
    ELSE IF days_val <= 30 THEN "Warning"
    ELSE "Safe"

\* The "Days Left" and "Status" of the row that get_services_df makes of
\* service s at time now (lines 21-70); days_left None stands for "N/A".
\* Every exception of the try block ends in the stored status and "N/A".
ReportRow(s, now) ==
    LET stored == [days_left |-> NoneVal, status |-> StoredStatus(s)] IN
    IF ~Truthy(s.expiry_date) THEN stored
    ELSE LET parsed == FromIsoFormat(ReplaceZ(s.expiry_date)) IN
         IF parsed.err # "" THEN stored
         ELSE LET diff == Subtract(parsed.dt, DateTime(parsed.dt.aware, now)) IN
              IF diff.err # "" THEN stored
              ELSE [days_left |-> Some(CeilDays(diff.delta)),
                    status |-> CalculatedStatus(CeilDays(diff.delta))]

\* get_services_df with the try block around the loop: the rows end at the
\* first service whose expiry does not parse.
RECURSIVE GetServicesDfAborting(_, _)
GetServicesDfAborting(services_list, now) ==
    IF services_list = <<>> THEN <<>>
    ELSE IF Truthy(Head(services_list).expiry_date)
            /\ FromIsoFormat(ReplaceZ(Head(services_list).expiry_date)).err # ""
    THEN <<>>
    ELSE <<ReportRow(Head(services_list), now)>>
         \o GetServicesDfAborting(Tail(services_list), now)

\* get_services_df: one row per service of the list, in its order.
GetServicesDf(services_list, now) ==
    [n \in 1..Len(services_list) |-> ReportRow(services_list[n], now)]

\* GET /reports/export: fetch the services and build the rows.
ExportServices ==
    /\ db
    /\ report' = Some([at |-> clock, rows |-> GetServicesDf(services, clock)])
    /\ UNCHANGED <<db, clock, settings, services, notification_logs, sweeps,
                   reminder, next_run_time, stats>>

(***************************************************************************)
(* get_dashboard_stats                                                     *)
(***************************************************************************)
\* What the loop of lines 1125-1143 does with service s: the counter it
\* increments, "none" when the ValueError of the parse is passed over, or
\* "TypeError" when the subtraction of line 1130 raises.
DashboardBucket(s, now) ==
    IF ~Truthy(s.expiry_date) THEN "safe"
    ELSE LET parsed == FromIsoFormat(ReplaceZ(s.expiry_date)) IN
         IF parsed.err # "" THEN "none"
         ELSE LET diff == Subtract(parsed.dt, DateTime(TRUE, now)) IN
              IF diff.err # "" THEN diff.err
              ELSE IF TimedeltaDays(diff.delta) < 0 THEN "expired"
              ELSE IF TimedeltaDays(diff.delta) <= 30 THEN "expiring_soon"
              ELSE "safe"

Count(services_list, now, bucket) ==
    Cardinality({n \in 1..Len(services_list) :
                    DashboardBucket(services_list[n], now) = bucket})

\* The answer of GET /dashboard/stats: the counters, or status 500 when
\* the loop raised (lines 1153-1155).
DashboardStats(services_list, now) ==
    IF Count(services_list, now, "TypeError") > 0
    THEN [status_code |-> 500, total |-> 0, expired |-> 0, expiring_soon |-> 0,
          safe |-> 0]
    ELSE [status_code |-> 200,
          total |-> Len(services_list),
          expired |-> Count(services_list, now, "expired"),
          expiring_soon |-> Count(services_list, now, "expiring_soon"),
          safe |-> Count(services_list, now, "safe")]

GetDashboardStats ==
    /\ db
    /\ stats' = Some([at |-> clock, body |-> DashboardStats(services, clock)])
    /\ UNCHANGED <<db, clock, settings, services, notification_logs, sweeps,
                   reminder, next_run_time, report>>

(***************************************************************************)
(* The system.                                                             *)
(***************************************************************************)
Next ==
    \/ Advance
    \/ RunSetup
    \/ GetSettings
    \/ \E th \in NotificationThresholdInputs : UpdateSettings(th)
    \/ \E data \in ServiceCreateInputs : CreateService(MaxServices, data)
    \/ \E id \in ServiceIds, data \in ServiceUpdateInputs : UpdateService(id, data)
    \/ \E id \in ServiceIds : DeleteService(id)
    \/ ScheduledSweep
    \/ TriggerExpiryCheck
    \/ \E t \in Tasks : SweepReadSettings(t)
    \/ \E t \in Tasks : SweepFetchServices(t)
    \/ \E t \in Tasks : SweepSend(t)
    \/ \E t \in Tasks : SweepLog(t)
    \/ \E t \in Tasks : SweepFinish(t)
    \/ \E id \in ServiceIds : SendManualReminder(id)
    \/ ReminderSend
    \/ ReminderLog
    \/ ReminderClose

Spec == Init /\ [][Next]_vars

\* The sweep and what it reads, with room for one more service and without
\* the requests that rewrite or remove services.
NextSweep ==
    \/ Advance
    \/ RunSetup
    \/ GetSettings
    \/ \E th \in NotificationThresholdInputs : UpdateSettings(th)
    \/ \E data \in ServiceCreateInputs : CreateService(MaxSweepServices, data)
    \/ ScheduledSweep
    \/ TriggerExpiryCheck
    \/ \E t \in Tasks : SweepReadSettings(t)
    \/ \E t \in Tasks : SweepFetchServices(t)
    \/ \E t \in Tasks : SweepSend(t)
    \/ \E t \in Tasks : SweepLog(t)
    \/ \E t \in Tasks : SweepFinish(t)

SpecSweep == Init /\ [][NextSweep]_vars

\* The requests on one service, started on a collection that already holds
\* its document.
InitStored ==
    /\ db = TRUE
    /\ clock = 0
    /\ settings \in {NoSettings, DefaultSettings}
    /\ services \in {<<service>> : service \in StoredServiceInputs}
    /\ notification_logs = <<>>
    /\ next_run_time = FirstRunTime
    /\ sweeps = [t \in Tasks |-> IdleSweep]
    /\ reminder = IdleReminder
    /\ report = NoneVal
    /\ stats = NoneVal

NextStored ==
    \/ \E id \in ServiceIds, data \in ServiceUpdateInputs : UpdateService(id, data)
    \/ \E id \in ServiceIds : SendManualReminder(id)
    \/ ReminderSend
    \/ ReminderLog
    \/ ReminderClose

SpecStored == InitStored /\ [][NextStored]_vars

\* The report export and the dashboard on a collection of services.
InitStatus ==
    /\ db = TRUE
    /\ clock = 0
    /\ settings = DefaultSettings
    /\ services \in ReportServicesInputs
    /\ notification_logs = <<>>
    /\ next_run_time = FirstRunTime
    /\ sweeps = [t \in Tasks |-> IdleSweep]
    /\ reminder = IdleReminder
    /\ report = NoneVal
    /\ stats = NoneVal

NextStatus ==
    \/ Advance
    \/ ExportServices
    \/ GetDashboardStats

SpecStatus == InitStatus /\ [][NextStatus]_vars

\* The sweeps over one stored service that no request changes, with sends
\* that may never return.  The event loop runs every coroutine that can go
\* on; whether a send returns is up to the transport.
InitDue ==
    /\ db \in BOOLEAN
    /\ clock = 0
    /\ settings \in SettingsInputs
    /\ services \in {<<service>> : service \in DueServiceInputs}
    /\ notification_logs = <<>>
    /\ next_run_time = FirstRunTime
    /\ sweeps = [t \in Tasks |-> IdleSweep]
    /\ reminder = IdleReminder
    /\ report = NoneVal
    /\ stats = NoneVal

NextDue ==
    \/ Advance
    \/ ScheduledSweep
    \/ TriggerExpiryCheck
    \/ \E t \in Tasks : SweepReadSettings(t)
    \/ \E t \in Tasks : SweepFetchServices(t)
    \/ \E t \in Tasks : SweepSend(t)
    \/ \E t \in Tasks : SweepSendHangs(t)
    \/ \E t \in Tasks : SweepLog(t)
    \/ \E t \in Tasks : SweepFinish(t)

FairnessDue ==
    \A t \in Tasks :
        /\ WF_vars(SweepReadSettings(t))
        /\ WF_vars(SweepFetchServices(t))
        /\ WF_vars(SweepSend(t) \/ SweepSendHangs(t))
        /\ WF_vars(SweepLog(t))
        /\ WF_vars(SweepFinish(t))

SpecDue == InitDue /\ [][NextDue]_vars /\ FairnessDue

\* create_service, update_service and delete_service with threshold lists
\* of the client's making.
NextThresholds ==
    \/ RunSetup
    \/ \E data \in ThresholdCreateInputs : CreateService(MaxSweepServices, data)
    \/ \E id \in IdPool(MaxSweepServices), data \in ThresholdUpdateInputs :
          UpdateService(id, data)
    \/ \E id \in IdPool(MaxSweepServices) : DeleteService(id)

SpecThresholds == Init /\ [][NextThresholds]_vars

\* The sweeps over a collection that no request changes, every send and
\* every store call returning.  A sweep writes at most one log entry per
\* owner with an email (the day offsets of the settings are distinct); a
\* sweep starts only while the log has room for the entries of every sweep
\* alive and its own, so that no sweep ever waits for room in the log.
LogsPerSweep ==
    Cardinality(UNION {{<<n, k>> : k \in EmailOwners(services[n].owners)} :
                       n \in 1..Len(services)})

RoomForSweep ==
    Len(notification_logs)
      + LogsPerSweep * (Cardinality({t \in Tasks : sweeps[t].pc # "idle"}) + 1)
    <= MaxLogs

InitRun ==
    /\ db \in BOOLEAN
    /\ clock = 0
    /\ settings \in {NoSettings, DefaultSettings}
    /\ services \in RunServicesInputs
    /\ notification_logs = <<>>
    /\ next_run_time = FirstRunTime
    /\ sweeps = [t \in Tasks |-> IdleSweep]
    /\ reminder = IdleReminder
    /\ report = NoneVal
    /\ stats = NoneVal

NextRun ==
    \/ Advance
    \/ RoomForSweep /\ ScheduledSweep
    \/ RoomForSweep /\ TriggerExpiryCheck
    \/ \E t \in Tasks : SweepReadSettings(t)
    \/ \E t \in Tasks : SweepFetchServices(t)
    \/ \E t \in Tasks : SweepSend(t)
    \/ \E t \in Tasks : SweepLog(t)
    \/ \E t \in Tasks : SweepFinish(t)

\* The event loop resumes a coroutine once the call it awaits has returned.
FairnessRun ==
    \A t \in Tasks :
        /\ WF_vars(SweepReadSettings(t))
        /\ WF_vars(SweepFetchServices(t))
        /\ WF_vars(SweepSend(t))
        /\ WF_vars(SweepLog(t))
        /\ WF_vars(SweepFinish(t))

SpecRun == InitRun /\ [][NextRun]_vars /\ FairnessRun

\* The daily job alone, over days: one service that no request changes,
\* no manual trigger, every run of the schedule fired at its time and ended
\* before the next.
InitDaily ==
    /\ db = TRUE
    /\ clock = 0
    /\ settings \in DailySettingsInputs
    /\ services \in {<<service>> : service \in DailyServiceInputs}
    /\ notification_logs = <<>>
    /\ next_run_time = FirstRunTime
    /\ sweeps = [t \in Tasks |-> IdleSweep]
    /\ reminder = IdleReminder
    /\ report = NoneVal
    /\ stats = NoneVal

NextDaily ==
    \/ AdvanceToNextRun
    \/ Delay
    \/ ScheduledSweep
    \/ \E t \in Tasks : SweepReadSettings(t)
    \/ \E t \in Tasks : SweepFetchServices(t)
    \/ \E t \in Tasks : SweepSend(t)
    \/ \E t \in Tasks : SweepLog(t)
    \/ \E t \in Tasks : SweepFinish(t)

SpecDaily == InitDaily /\ [][NextDaily]_vars

\* The sweeps and the manual reminder over one stored service that no
\* request changes.
NextOwners ==
    \/ Advance
    \/ ScheduledSweep
    \/ TriggerExpiryCheck
    \/ \E t \in Tasks : SweepReadSettings(t)
    \/ \E t \in Tasks : SweepFetchServices(t)
    \/ \E t \in Tasks : SweepSend(t)
    \/ \E t \in Tasks : SweepLog(t)
    \/ \E t \in Tasks : SweepFinish(t)
    \/ \E id \in ServiceIds : SendManualReminder(id)
    \/ ReminderSend
    \/ ReminderLog
    \/ ReminderClose

SpecOwners == InitDue /\ [][NextOwners]_vars

(***************************************************************************)
(* Properties.                                                             *)
(***************************************************************************)
Logs == 1..Len(notification_logs)

EmailCount(owners) == Cardinality(EmailOwners(owners))

LaterEmailOwners(owners, k) == {n \in EmailOwners(owners) : n > k}

\* The service is stored with the thresholds it was created with, and the
\* settings' day offsets are the defaults: no request has changed either.
ThresholdsUnchanged(service_id) ==
    /\ service_id \in StoredIds
    /\ FindService(service_id)[1].reminder_thresholds = DefaultReminderThresholds
    /\ settings.notification_thresholds
         \in {NoneVal, Some(DefaultNotificationThresholds)}

\* Task t is inside the owner loop of the service.
InOwnerLoop(t, service_id) ==
    /\ sweeps[t].pc \in {"send", "log"}
    /\ sweeps[t].services[sweeps[t].i].id = service_id

\* C1: while neither the service's thresholds nor the settings' day offsets
\* change, the sweeps notify an owner of a service for one day offset at
\* most once: the log never holds two automatic reminders for the same
\* service, recipient and day count.
C1_AtMostOncePerThreshold ==
    \A m, n \in Logs :
        (/\ m < n
         /\ notification_logs[m].type = "auto_reminder"
         /\ notification_logs[n].type = "auto_reminder"
         /\ notification_logs[m].service_id = notification_logs[n].service_id
         /\ notification_logs[m].recipient_email = notification_logs[n].recipient_email
         /\ notification_logs[m].days_until_expiry = notification_logs[n].days_until_expiry
         /\ ThresholdsUnchanged(notification_logs[m].service_id))
        => FALSE

\* C2: once a sweep has dispatched a day offset for a service and left the
\* service's owner loop, the id of the service's threshold with that
\* days_before is in the service's notifications_sent.
C2_DispatchedThresholdIsNotified ==
    \A n \in Logs :
        (/\ notification_logs[n].type = "auto_reminder"
         /\ ThresholdsUnchanged(notification_logs[n].service_id)
         /\ \A t \in Tasks : ~InOwnerLoop(t, notification_logs[n].service_id))
        => LET service == FindService(notification_logs[n].service_id)[1] IN
           \E th \in Range(service.reminder_thresholds) :
               /\ th.days_before = notification_logs[n].days_until_expiry
               /\ th.id \in Range(service.notifications_sent)

\* C3: at most one check_expiring_services coroutine is running at any time.
C3_AtMostOneSweepRunning ==
    Cardinality({t \in Tasks : Running(t)}) <= 1

\* C4: update_service with a reminder_thresholds list leaves the service
\* with an empty notifications_sent, whatever it held before.
C4_UpdateResetsNotified ==
    [][\A id \in ServiceIds, data \in ServiceUpdateInputs :
          (UpdateService(id, data) /\ ~IsNone(data.reminder_thresholds))
          => FindService(id)'[1].notifications_sent = <<>>]_vars

\* C4 happens: a service whose threshold list was replaced by an update and
\* whose notifications_sent is empty.
C4_ThresholdsReplaced ==
    \E n \in 1..Len(services) :
        /\ services[n].reminder_thresholds = <<Threshold(GeneratedId(1), 7)>>
        /\ services[n].notifications_sent = <<>>

\* C5: in the manual reminder and in the sweep, every send appends one
\* result and every log step one log entry, and after the log step of an
\* owner the loop goes on to the next owner that has an email, whatever the
\* send returned; it leaves the owner loop only when no such owner is left,
\* having made one attempt per owner with an email.
C5_FailedSendDoesNotStopTheOthers ==
    [][/\ (reminder.pc = "send" /\ reminder' # reminder)
            => /\ reminder'.pc = "log"
               /\ Len(reminder'.sent) = Len(reminder.sent) + 1
       /\ (reminder.pc = "log" /\ reminder' # reminder)
            => /\ Len(notification_logs') = Len(notification_logs) + 1
               /\ IF LaterEmailOwners(reminder.owners, reminder.k) # {}
                  THEN /\ reminder'.pc = "send"
                       /\ reminder'.k \in LaterEmailOwners(reminder.owners, reminder.k)
                       /\ reminder'.sent = reminder.sent
                  ELSE /\ reminder'.pc = "responded"
                       /\ Len(reminder'.sent) = EmailCount(reminder.owners)
       /\ \A t \in Tasks :
            /\ (sweeps[t].pc = "send" /\ sweeps'[t] # sweeps[t])
                 => /\ sweeps'[t].pc = "log"
                    /\ Len(sweeps'[t].sent) = Len(sweeps[t].sent) + 1
            /\ (sweeps[t].pc = "log" /\ sweeps'[t] # sweeps[t])
                 => LET owners == sweeps[t].services[sweeps[t].i].owners IN
                    /\ Len(notification_logs') = Len(notification_logs) + 1
                    /\ IF LaterEmailOwners(owners, sweeps[t].k) # {}
                       THEN /\ sweeps'[t].pc = "send"
                            /\ sweeps'[t].i = sweeps[t].i
                            /\ sweeps'[t].j = sweeps[t].j
                            /\ sweeps'[t].k \in LaterEmailOwners(owners, sweeps[t].k)
                            /\ sweeps'[t].sent = sweeps[t].sent
                       ELSE Len(sweeps[t].sent) = EmailCount(owners)]_vars

\* C5 happens: a manual reminder has responded after a failed send followed
\* by a successful one, while a sweep is logging the successful send that
\* followed a failed one.
C5_SendAfterFailedSend ==
    /\ reminder.pc = "responded"
    /\ reminder.sent = <<FALSE, TRUE>>
    /\ \E t \in Tasks : sweeps[t].pc = "log" /\ sweeps[t].sent = <<FALSE, TRUE>>

\* C6: every entry of the notification log carries a status, "sent" or
\* "failed".
C6_EveryLogEntryHasStatus ==
    \A n \in Logs : notification_logs[n].status \in {"sent", "failed"}

\* C7, as stated: a manual reminder that has gone through the owners of a
\* service has attempted one send per owner.
C7_AttemptsEveryOwner ==
    (reminder.pc = "responded"
     /\ reminder.result = "Reminders sent to sent_count recipients")
    => Len(reminder.sent) = Len(reminder.owners)

\* C7, amended: send_manual_reminder on a stored service with owners takes
\* the service's current owners, whatever its notifications_sent and the
\* log hold, and when it responds it has attempted one send per owner that
\* has an email.
C7_AttemptsEveryOwnerWithEmail ==
    [][/\ \A id \in ServiceIds :
            (/\ SendManualReminder(id)
             /\ id \in StoredIds
             /\ FindService(id)[1].owners # <<>>)
            => /\ reminder'.owners = FindService(id)[1].owners
               /\ reminder'.sent = <<>>
               /\ reminder'.pc = "send"
                    <=> EmailOwners(FindService(id)[1].owners) # {}
       /\ (/\ reminder'.pc = "responded"
           /\ reminder' # reminder
           /\ reminder'.result = "Reminders sent to sent_count recipients")
            => Len(reminder'.sent) = EmailCount(reminder'.owners)]_vars

\* C7 happens: a manual reminder has responded after a send to each of the
\* two owners with an email, for a service whose notifications_sent is not
\* empty and whose owners each had a manual reminder logged before.
C7_SecondReminderDelivered ==
    /\ reminder.pc = "responded"
    /\ Len(reminder.sent) = 2
    /\ reminder.service_id \in StoredIds
    /\ FindService(reminder.service_id)[1].notifications_sent # <<>>
    /\ \A k \in EmailOwners(reminder.owners) :
         Cardinality({n \in Logs :
            /\ notification_logs[n].type = "manual_reminder"
            /\ notification_logs[n].service_id = reminder.service_id
            /\ notification_logs[n].recipient_email = reminder.owners[k].email}) = 2

\* C8: send_manual_reminder on a stored service without owners responds
\* "No owners to notify" without a send and without a log entry, and a
\* sweep never sends or logs for a service without owners.
C8_NoOwnersIsNoOp ==
    [][/\ \A id \in ServiceIds :
            (/\ SendManualReminder(id)
             /\ id \in StoredIds
             /\ FindService(id)[1].owners = <<>>)
            => /\ reminder'.pc = "responded"
               /\ reminder'.result = "No owners to notify"
               /\ reminder'.sent = <<>>
               /\ notification_logs' = notification_logs
       /\ \A t \in Tasks :
            sweeps'[t].pc \in {"send", "log"}
            => sweeps'[t].services[sweeps'[t].i].owners # <<>>]_vars

\* C8 happens: the manual reminder has answered "No owners to notify", and
\* a sweep over the stored service, which has no owners and is 7 days from
\* its expiry, has ended, with nothing logged.
C8_NothingToNotify ==
    /\ reminder.pc = "responded"
    /\ reminder.result = "No owners to notify"
    /\ \E t \in Tasks : sweeps[t].pc = "done" /\ sweeps[t].error = ""
    /\ \E n \in 1..Len(services) :
         /\ services[n].owners = <<>>
         /\ services[n].expiry_date = IsoString("z", ExpiryTime)
    /\ notification_logs = <<>>

\* C9: a sweep that has ended has reached every service it fetched.
C9_SweepReachesEveryService ==
    \A t \in Tasks : sweeps[t].pc = "done" => sweeps[t].unvisited = 0

\* C10: for every stored expiry that parses, the report and the dashboard
\* subtract two aware or two naive datetimes, and so does a sweep for the
\* service it is at; no sweep ends in the TypeError of a mixed subtraction.
C10_NeverMixedOperands ==
    /\ \A n \in 1..Len(services) :
         Parses(services[n].expiry_date)
         => /\ ~MixedOperands(ReportOperands(services[n].expiry_date))
            /\ ~MixedOperands(DashboardOperands(services[n].expiry_date))
    /\ \A t \in Tasks :
         /\ sweeps[t].pc \in {"send", "log"}
              => ~MixedOperands(SweepOperands(
                     sweeps[t].services[sweeps[t].i].expiry_date, sweeps[t].now))
         /\ sweeps[t].error # "TypeError"

\* The rows of the last report export, for the services they were made of
\* (no request of the export's specification changes the collection).
Rows == report[1].rows

RowsWithStatus(statuses) == {n \in 1..Len(Rows) : Rows[n].status \in statuses}

\* C11: in a report, every service whose expiry parses has a day count, and
\* its status is Expired for a count below 0, Critical from 0 to 7, Warning
\* from 8 to 30 and Safe above 30.
C11_StatusByDaysRemaining ==
    ~IsNone(report) =>
        \A n \in 1..Len(services) :
            Parses(services[n].expiry_date) =>
                /\ ~IsNone(Rows[n].days_left)
                /\ LET d == Rows[n].days_left[1] IN
                   /\ Rows[n].status = "Expired" <=> d < 0
                   /\ Rows[n].status = "Critical" <=> (0 <= d /\ d <= 7)
                   /\ Rows[n].status = "Warning" <=> (8 <= d /\ d <= 30)
                   /\ Rows[n].status = "Safe" <=> d > 30

\* C11 happens: a report with a Critical row of 7 days and a Warning row of
\* 8 days.
C11_StatusLimitReported ==
    /\ ~IsNone(report)
    /\ \E m, n \in 1..Len(Rows) :
         /\ Rows[m] = [days_left |-> Some(7), status |-> "Critical"]
         /\ Rows[n] = [days_left |-> Some(8), status |-> "Warning"]

\* C12: the day count d of a report row is the ceiling of the difference
\* between the expiry and the export's time in days: d - 1 < difference <= d,
\* for negative differences too.
C12_DaysRemainingIsCeiling ==
    ~IsNone(report) =>
        \A n \in 1..Len(services) :
            Parses(services[n].expiry_date) =>
                /\ ~IsNone(Rows[n].days_left)
                /\ LET delta == services[n].expiry_date.t - report[1].at
                       d == Rows[n].days_left[1]
                   IN /\ (d - 1) * SecondsPerDay < delta
                      /\ delta <= d * SecondsPerDay

\* C12 happens: a report with a service that expired half a day before,
\* counted as 0 days, and a service that expires in 7.5 days, counted as 8.
C12_FractionOfADayReported ==
    /\ ~IsNone(report)
    /\ \E m, n \in 1..Len(services) :
         /\ Parses(services[m].expiry_date)
         /\ services[m].expiry_date.t - report[1].at = -Tick
         /\ Rows[m].days_left = Some(0)
         /\ Parses(services[n].expiry_date)
         /\ services[n].expiry_date.t - report[1].at = 7 * SecondsPerDay + Tick
         /\ Rows[n].days_left = Some(8)

\* C13: in a report, a service without an expiry has status Safe and day
\* count "N/A", whatever status it is stored with.
C13_NoExpiryIsSafe ==
    ~IsNone(report) =>
        \A n \in 1..Len(services) :
            services[n].expiry_date = EmptyString =>
                /\ Rows[n].status = "Safe"
                /\ IsNone(Rows[n].days_left)

\* C14: a report has one row per service; the row of a service whose expiry
\* is malformed has the stored status, or Active when none is stored, and
\* day count "N/A", and every service whose expiry parses has a day count
\* and a computed status.
C14_MalformedExpiryFallsBack ==
    ~IsNone(report) =>
        /\ Len(Rows) = Len(services)
        /\ \A n \in 1..Len(services) :
             /\ services[n].expiry_date = BadString =>
                  /\ IsNone(Rows[n].days_left)
                  /\ Rows[n].status = IF IsNone(services[n].status) THEN "Active"
                                      ELSE services[n].status[1]
             /\ Parses(services[n].expiry_date) =>
                  /\ ~IsNone(Rows[n].days_left)
                  /\ Rows[n].status \in {"Expired", "Critical", "Warning", "Safe"}

\* C14 happens: a report of two services, the first with a malformed expiry
\* and no stored status, reported as Active and "N/A", the second reported
\* with its day count.
C14_RowAfterMalformedExpiry ==
    /\ ~IsNone(report)
    /\ Len(services) = 2
    /\ services[1].expiry_date = BadString
    /\ Rows[1] = [days_left |-> NoneVal, status |-> "Active"]
    /\ ~IsNone(Rows[2].days_left)

\* C15: for services whose expiries all parse, a dashboard answer and a
\* report made at the same time agree: the dashboard succeeds and counts as
\* expired the Expired rows, as expiring_soon the Critical and Warning rows
\* and as safe the Safe rows.
C15_DashboardAgreesWithReport ==
    (/\ ~IsNone(report)
     /\ ~IsNone(stats)
     /\ report[1].at = stats[1].at
     /\ \A n \in 1..Len(services) : Parses(services[n].expiry_date))
    => /\ stats[1].body.status_code = 200
       /\ stats[1].body.expired = Cardinality(RowsWithStatus({"Expired"}))
       /\ stats[1].body.expiring_soon
            = Cardinality(RowsWithStatus({"Critical", "Warning"}))
       /\ stats[1].body.safe = Cardinality(RowsWithStatus({"Safe"}))

\* C16: a sweep sends for a service only at a day offset that is the
\* days_before of one of the service's reminder thresholds, equals the
\* service's whole-day difference at the sweep's time, and whose threshold
\* id is not in the service's notifications_sent.
C16_DueThresholdsOfTheService ==
    \A t \in Tasks :
        sweeps[t].pc \in {"send", "log"} =>
            LET service == FindService(sweeps[t].services[sweeps[t].i].id)[1] IN
            \E th \in Range(service.reminder_thresholds) :
                /\ th.days_before = sweeps[t].thresholds[sweeps[t].j]
                /\ th.days_before = DaysUntil(service, sweeps[t].now).days
                /\ th.id \notin Range(service.notifications_sent)

\* C17: the step of trigger_expiry_check that starts the task leaves the
\* new sweep at its first await, before any read, send or log entry, and
\* changes nothing else: the handler answers without running the sweep.
C17_TriggerReturnsAtOnce ==
    [][(sweeps[TriggerTask].pc = "idle" /\ sweeps'[TriggerTask].pc # "idle")
          => /\ sweeps'[TriggerTask] = [IdleSweep EXCEPT !.pc = "settings"]
             /\ sweeps'[CronTask] = sweeps[CronTask]
             /\ notification_logs' = notification_logs]_vars

\* C17 happens: the triggered sweep has been handed off and has not run
\* yet, while the sweep of the daily job is waiting for a send.
C17_HandedOffDuringSend ==
    /\ sweeps[TriggerTask].pc = "settings"
    /\ sweeps[CronTask].pc = "send"

\* C18: when a send of a sweep never returns and the service has a later
\* owner with an email, the sweep eventually gets to another send (within
\* a sweep the owner loop only moves forward, so that is a later owner's).
C18_HungSendDoesNotStall ==
    \A t \in Tasks :
        (/\ sweeps[t].pc = "hung"
         /\ LaterEmailOwners(sweeps[t].services[sweeps[t].i].owners,
                             sweeps[t].k) # {})
        ~> (sweeps[t].pc = "send")

\* C19: a sweep that finds no database at its start ends there, without a
\* log entry; a sweep that has ended only goes back to idle, and a task
\* only starts by the scheduler firing or by trigger_expiry_check.
C19_NoStoreEndsTheSweep ==
    [][\A t \in Tasks :
          /\ (sweeps[t].pc = "settings" /\ ~db /\ sweeps'[t] # sweeps[t])
               => /\ sweeps'[t] = [IdleSweep EXCEPT !.pc = "done"]
                  /\ notification_logs' = notification_logs
          /\ (sweeps[t].pc = "done" /\ sweeps'[t] # sweeps[t])
               => sweeps'[t] = IdleSweep
          /\ (sweeps[t].pc = "idle" /\ sweeps'[t] # sweeps[t])
               => ScheduledSweep \/ TriggerExpiryCheck]_vars

\* C19 happens: without a database, a sweep has ended and nothing is
\* logged.
C19_SweepEndedWithoutStore ==
    /\ ~db
    /\ \E t \in Tasks : sweeps[t].pc = "done"
    /\ notification_logs = <<>>

\* C20: a manual reminder all of whose sends failed does not answer with
\* the success message.
C20_FailedReminderIsAnError ==
    (/\ reminder.pc = "responded"
     /\ reminder.sent # <<>>
     /\ \A n \in 1..Len(reminder.sent) : ~reminder.sent[n])
    => reminder.result # "Reminders sent to sent_count recipients"

\* C21: the notification log is append-only: every step leaves the entries
\* written so far in place and unchanged, and adds at most one at the end;
\* deleting a service leaves the log as it is.
C21_LogIsAppendOnly ==
    [][/\ Len(notification_logs') \in
            {Len(notification_logs), Len(notification_logs) + 1}
       /\ SubSeq(notification_logs', 1, Len(notification_logs)) = notification_logs
       /\ \A id \in ServiceIds :
            DeleteService(id) => notification_logs' = notification_logs]_vars

\* C21 happens: the log holds an entry of a service that has been deleted.
C21_EntryOfDeletedService ==
    \E n \in Logs : notification_logs[n].service_id \notin StoredIds

\* C22: the reminder thresholds of every stored service have pairwise
\* distinct ids.
C22_ThresholdIdsDistinct ==
    \A n \in 1..Len(services) :
        \A a, b \in 1..Len(services[n].reminder_thresholds) :
            a # b => services[n].reminder_thresholds[a].id
                       # services[n].reminder_thresholds[b].id

\* The position (i, j, k) of a sweep in its loops is at or after (i2, j2, k2).
NotBefore(task, i2, j2, k2) ==
    \/ task.i > i2
    \/ task.i = i2 /\ task.j > j2
    \/ task.i = i2 /\ task.j = j2 /\ task.k >= k2

\* C23: every sweep that has started gets back to idle; while it runs it
\* keeps its list of services and only moves forward in it, and once it has
\* ended it does nothing but become idle.
C23_SweepFinishes ==
    /\ \A t \in Tasks : (sweeps[t].pc # "idle") ~> (sweeps[t].pc = "idle")
    /\ [][\A t \in Tasks :
            /\ (sweeps[t].pc \in {"send", "log"} /\ sweeps'[t].pc \in {"send", "log"})
                 => /\ sweeps'[t].services = sweeps[t].services
                    /\ NotBefore(sweeps'[t], sweeps[t].i, sweeps[t].j, sweeps[t].k)
            /\ (sweeps[t].pc = "log" /\ sweeps'[t].pc = "send")
                 => ~NotBefore(sweeps[t], sweeps'[t].i, sweeps'[t].j, sweeps'[t].k)
            /\ (sweeps[t].pc = "done" /\ sweeps'[t] # sweeps[t])
                 => sweeps'[t] = IdleSweep]_vars

\* C23 happens: the sweeps that wrote an entry for each of two services
\* have ended and every task is idle again.
C23_SweepsOverAndIdle ==
    /\ \A t \in Tasks : sweeps[t].pc = "idle"
    /\ Len(services) = 2
    /\ \A id \in StoredIds : \E n \in Logs : notification_logs[n].service_id = id

\* The (service, day offset) pairs that are due in what a sweep has read.
DuePairs(task) ==
    {p \in (1..Len(task.services)) \X (1..Len(task.thresholds)) :
        LET d == DaysUntil(task.services[p[1]], task.now) IN
        ~d.skip /\ d.error = "" /\ d.days = task.thresholds[p[2]]}

\* C24: a sweep keeps the day offsets, the time and the services it read at
\* its start for the whole run; the pair it sends for is due in what it
\* read, and where it goes next follows from what it read alone.  A request
\* that changes the services or the settings changes no running sweep.
C24_SweepWorksOnItsSnapshot ==
    [][/\ (services' # services \/ settings' # settings) => sweeps' = sweeps
       /\ \A t \in Tasks :
            /\ (sweeps[t].pc \in {"services", "send", "log"}
                /\ sweeps'[t].pc \in {"send", "log"})
                 => /\ sweeps'[t].thresholds = sweeps[t].thresholds
                    /\ sweeps'[t].now = sweeps[t].now
            /\ (sweeps[t].pc \in {"send", "log"} /\ sweeps'[t].pc \in {"send", "log"})
                 => sweeps'[t].services = sweeps[t].services
            /\ sweeps[t].pc \in {"send", "log"}
                 => <<sweeps[t].i, sweeps[t].j>> \in DuePairs(sweeps[t])
            /\ (sweeps[t].pc = "log" /\ sweeps'[t] # sweeps[t])
                 => sweeps'[t] = Resume(sweeps[t], sweeps[t].i, sweeps[t].j,
                                        sweeps[t].k + 1)]_vars

\* C24 happens: a sweep is sending for a service that has been deleted
\* since, with day offsets that the settings no longer hold.
C24_StoreChangedUnderSweep ==
    \E t \in Tasks :
        /\ sweeps[t].pc = "send"
        /\ sweeps[t].services[sweeps[t].i].id \notin StoredIds
        /\ sweeps[t].thresholds = DefaultNotificationThresholds
        /\ settings.notification_thresholds = Some(<<7>>)

\* The time `now` lies in the interval in which the whole-day difference to
\* the expiry time is d.
InIntervalOf(d, expiry_time, now) ==
    /\ d * SecondsPerDay <= expiry_time - now
    /\ expiry_time - now < (d + 1) * SecondsPerDay

\* Task t is at a send or a log entry for a day offset in whose interval it
\* took its `now`.
AtOffsetOfItsTime(task) ==
    /\ task.pc \in {"send", "log"}
    /\ InIntervalOf(task.thresholds[task.j], task.services[task.i].expiry_date.t,
                    task.now)

AutoReminders(service_id, d) ==
    {n \in Logs :
        /\ notification_logs[n].type = "auto_reminder"
        /\ notification_logs[n].service_id = service_id
        /\ notification_logs[n].days_until_expiry = d}

\* C25: a sweep sends and logs for a day offset d only when the `now` it
\* took lies in the interval in which the service's whole-day difference is
\* d, and every log entry for d is written by such a sweep: no sweep with a
\* later `now` notifies for d.
C25_NoCatchingUp ==
    [][/\ \A t \in Tasks :
            sweeps'[t].pc \in {"send", "log"} => AtOffsetOfItsTime(sweeps'[t])
       /\ notification_logs' # notification_logs
            => \E t \in Tasks :
                 /\ AtOffsetOfItsTime(sweeps[t])
                 /\ sweeps[t].pc = "log"
                 /\ notification_logs'[Len(notification_logs')].days_until_expiry
                      = sweeps[t].thresholds[sweeps[t].j]]_vars

\* C25 happens: a sweep is logging for day offset 0 of day offsets 1 and 0,
\* and the log holds no entry for 1: no sweep took its time in the interval
\* of 1, and this later sweep has passed over it.
C25_MissedOffsetPassedOver ==
    \E t \in Tasks :
        /\ sweeps[t].pc = "log"
        /\ sweeps[t].thresholds = <<1, 0>>
        /\ sweeps[t].j = 2
        /\ AutoReminders(sweeps[t].services[sweeps[t].i].id, 1) = {}

\* C29: with the daily schedule alone and nothing changed, each day offset
\* d of the settings is notified to the service's owner by exactly one
\* sweep: never twice, and once when the interval of d began no earlier
\* than a day before the first run and every run fired up to its end is
\* over.
C29_OnceByTheDailySchedule ==
    \A n \in 1..Len(services) :
        \A d \in Range(settings.notification_thresholds[1]) :
            LET count == Cardinality(AutoReminders(services[n].id, d))
                last == services[n].expiry_date.t - d * SecondsPerDay
                first == last - SecondsPerDay
            IN /\ count <= 1
               /\ (/\ first >= FirstRunTime - SecondsPerDay
                   /\ next_run_time > last
                   /\ sweeps[CronTask].pc = "idle")
                  => count = 1

\* C26: no sweep sends or logs for a service without an expiry: the service
\* a sweep is sending or logging for has an expiry, and so has the service
\* of every automatic reminder in the log.
C26_NoExpiryNeverNotified ==
    /\ \A t \in Tasks :
         sweeps[t].pc \in {"send", "log"}
         => Truthy(sweeps[t].services[sweeps[t].i].expiry_date)
    /\ \A n \in Logs :
         notification_logs[n].type = "auto_reminder"
         => Truthy(FindService(notification_logs[n].service_id)[1].expiry_date)

\* C26 happens: a sweep over two services is logging for the second, having
\* passed over the first, which has no expiry and has owners with emails.
C26_PassedOverNoExpiry ==
    \E t \in Tasks :
        /\ sweeps[t].pc = "log"
        /\ Len(sweeps[t].services) = 2
        /\ sweeps[t].i = 2
        /\ sweeps[t].services[1].expiry_date = EmptyString
        /\ EmailOwners(sweeps[t].services[1].owners) # {}
        /\ \A n \in Logs :
             notification_logs[n].service_id # sweeps[t].services[1].id

\* The sends made in an owner loop that stands at owner k: one for each
\* owner with an email before k, and the one for k once it has returned.
SendsUpTo(owners, k, returned) ==
    Cardinality({n \in EmailOwners(owners) : n < k}) + (IF returned THEN 1 ELSE 0)

\* C27: the sweep and the manual reminder send and log only for owners
\* that have an email, no log entry has an empty recipient, and the owners
\* with an email are all attempted: an owner loop at owner k has made one
\* send per owner with an email before k, and a manual reminder that has
\* gone through the owners has made one per owner with an email.
C27_OwnerWithoutEmailIsSkipped ==
    /\ \A n \in Logs : notification_logs[n].recipient_email # ""
    /\ \A t \in Tasks :
         sweeps[t].pc \in {"send", "log"}
         => LET owners == sweeps[t].services[sweeps[t].i].owners IN
            /\ HasEmail(owners[sweeps[t].k])
            /\ Len(sweeps[t].sent)
                 = SendsUpTo(owners, sweeps[t].k, sweeps[t].pc = "log")
    /\ reminder.pc \in {"send", "log"}
         => /\ HasEmail(reminder.owners[reminder.k])
            /\ Len(reminder.sent)
                 = SendsUpTo(reminder.owners, reminder.k, reminder.pc = "log")
    /\ (reminder.pc = "responded" /\ reminder.owners # <<>>)
         => Len(reminder.sent) = EmailCount(reminder.owners)

\* C27 happens: the owner that follows the owner without an email has an
\* automatic and a manual reminder in the log.
C27_OwnerAfterBlankNotified ==
    /\ \E n \in 1..Len(services) :
         /\ Len(services[n].owners) = 3
         /\ ~HasEmail(services[n].owners[2])
         /\ services[n].owners[3].email = "bob@x"
    /\ \E m, n \in Logs :
         /\ notification_logs[m].type = "auto_reminder"
         /\ notification_logs[m].recipient_email = "bob@x"
         /\ notification_logs[n].type = "manual_reminder"
         /\ notification_logs[n].recipient_email = "bob@x"

\* C28: the notifications_sent of every stored service is empty.
C28_NotifiedAlwaysEmpty ==
    \A n \in 1..Len(services) : services[n].notifications_sent = <<>>

\* C28 happens: a stored service has an automatic and a manual reminder in
\* the log, and its notifications_sent is empty.
C28_NotifiedButNothingRecorded ==
    \E s \in 1..Len(services) :
        /\ services[s].notifications_sent = <<>>
        /\ AutoReminders(services[s].id, 7) # {}
        /\ \E n \in Logs :
             /\ notification_logs[n].type = "manual_reminder"
             /\ notification_logs[n].service_id = services[s].id

\* The stored expiry is a timestamp with an offset.
Aware(expiry_date) ==
    Parses(expiry_date) /\ FromIsoFormat(ReplaceZ(expiry_date)).dt.aware

\* C30: for an expiry with an offset and the time of a report, the report's
\* day count equals the sweep's when the difference is a whole number of
\* days and is one more otherwise; a service that expired less than a day
\* before counts -1 for the sweep and 0, Critical, for the report; and a
\* dashboard answer of the same time counts as expired the services whose
\* sweep count is negative.
C30_CeilingIsFloorOrOneMore ==
    ~IsNone(report) =>
        /\ \A n \in 1..Len(services) :
             Aware(services[n].expiry_date) =>
                LET delta == services[n].expiry_date.t - report[1].at
                    sweep_days == DaysUntil(services[n], report[1].at).days
                    report_days == Rows[n].days_left[1]
                IN /\ delta % SecondsPerDay = 0 => report_days = sweep_days
                   /\ delta % SecondsPerDay # 0 => report_days = sweep_days + 1
                   /\ (-SecondsPerDay < delta /\ delta < 0)
                        => /\ sweep_days = -1
                           /\ report_days = 0
                           /\ Rows[n].status = "Critical"
        /\ (/\ ~IsNone(stats)
            /\ stats[1].at = report[1].at
            /\ stats[1].body.status_code = 200)
           => stats[1].body.expired =
                Cardinality({n \in 1..Len(services) :
                    /\ Aware(services[n].expiry_date)
                    /\ DaysUntil(services[n], report[1].at).days < 0})

\* C30 happens: a service that expired half a day before has 0 days and
\* Critical in a report and is counted as expired by the dashboard answer of
\* the same time, next to a service whose difference is a whole number of
\* days.
C30_ExpiredForOneCriticalForTheOther ==
    /\ ~IsNone(report)
    /\ ~IsNone(stats)
    /\ stats[1].at = report[1].at
    /\ stats[1].body.status_code = 200
    /\ stats[1].body.expired = 1
    /\ \E m, n \in 1..Len(services) :
         /\ Aware(services[m].expiry_date)
         /\ services[m].expiry_date.t - report[1].at = -Tick
         /\ Rows[m] = [days_left |-> Some(0), status |-> "Critical"]
         /\ Aware(services[n].expiry_date)
         /\ services[n].expiry_date.t - report[1].at = 7 * SecondsPerDay
         /\ Rows[n].days_left = Some(7)

====
